---- MODULE Spec2Model ----
(***************************************************************************)
(* The ingestion pipeline of src/ingest_to_sqlite.py: ingest() reads five  *)
(* CSV files, coerces their numeric fields, writes each file's rows into   *)
(* its SQLite table with INSERT OR REPLACE (one transaction per table),    *)
(* recomputes orders.total from order_items and optionally writes the      *)
(* customer lifetime-value report.                                         *)
(*                                                                         *)
(* A CSV field is a text: a sequence of one-character strings.  A stored   *)
(* cell is a record [k, n, s]: an INTEGER (k = "int", n its value), a REAL *)
(* (k = "real", n its value in thousandths) or a TEXT (k = "text", s its   *)
(* characters).  The TEXT columns that no statement of the program reads   *)
(* (address, join_date, category, sku, order_date, review_text,            *)
(* review_date) are left out of the rows.                                  *)
(***************************************************************************)
EXTENDS Integers, Sequences, FiniteSets, TLC

VARIABLES store, db_exists, ltv_report, last, runs

vars == <<store, db_exists, ltv_report, last, runs>>

-----------------------------------------------------------------------------
(* Cells of the store *)

IntV(i) == [k |-> "int", n |-> i, s |-> <<>>]

RealV(m) == [k |-> "real", n |-> m, s |-> <<>>]

TextV(t) == [k |-> "text", n |-> 0, s |-> t]

-----------------------------------------------------------------------------
(* float(x) of Python on the texts of the model: an optional sign, digits  *)
(* with at most one point and at least one digit.  The value is kept in    *)
(* thousandths; the texts of the model carry at most three decimals.       *)

DigitVal ==
  ("0" :> 0) @@ ("1" :> 1) @@ ("2" :> 2) @@ ("3" :> 3) @@ ("4" :> 4) @@
  ("5" :> 5) @@ ("6" :> 6) @@ ("7" :> 7) @@ ("8" :> 8) @@ ("9" :> 9)

AllDigits(t) == \A i \in DOMAIN t : t[i] \in DOMAIN DigitVal

RECURSIVE DigitsValue(_)
DigitsValue(t) ==
  IF t = <<>> THEN 0
  ELSE DigitsValue(SubSeq(t, 1, Len(t) - 1)) * 10 + DigitVal[t[Len(t)]]

\* the fraction digits as thousandths: "5" is 500, "05" is 50, "505" is 505
FractionValue(t) ==
  LET d == SubSeq(t, 1, IF Len(t) < 3 THEN Len(t) ELSE 3)
  IN  IF Len(d) = 0 THEN 0
      ELSE IF Len(d) = 1 THEN DigitsValue(d) * 100
      ELSE IF Len(d) = 2 THEN DigitsValue(d) * 10
      ELSE DigitsValue(d)

ParseFloat(t) ==
  LET neg   == t # <<>> /\ t[1] = "-"
      body  == IF neg THEN SubSeq(t, 2, Len(t)) ELSE t
      dots  == {i \in DOMAIN body : body[i] = "."}
      dot   == IF dots = {} THEN Len(body) + 1 ELSE CHOOSE i \in dots : TRUE
      whole == SubSeq(body, 1, dot - 1)
      frac  == SubSeq(body, dot + 1, Len(body))
      ok    == /\ Cardinality(dots) <= 1
               /\ AllDigits(whole) /\ AllDigits(frac)
               /\ Len(whole) + Len(frac) >= 1
      mag   == DigitsValue(whole) * 1000 + FractionValue(frac)
  IN  IF ok THEN [ok |-> TRUE, mills |-> IF neg THEN 0 - mag ELSE mag]
      ELSE [ok |-> FALSE, mills |-> 0]

\* int(f) of Python: truncation toward zero
Truncate(m) == IF m >= 0 THEN m \div 1000 ELSE 0 - ((0 - m) \div 1000)

\* r[col] = int(float(r[col])), the text kept on ValueError and when empty
IntCoerce(t) ==
  LET Cell(f) == IF t = <<>> THEN TextV(t)
                 ELSE IF f.ok THEN IntV(Truncate(f.mills))
                 ELSE TextV(t)
  IN  Cell(ParseFloat(t))

\* r[col] = float(r[col]), the text kept on ValueError and when empty
FloatCoerce(t) ==
  LET Cell(f) == IF t = <<>> THEN TextV(t)
                 ELSE IF f.ok THEN RealV(f.mills)
                 ELSE TextV(t)
  IN  Cell(ParseFloat(t))

IntCols == {"customer_id", "product_id", "order_id", "order_item_id", "rating", "quantity"}

FloatCols == {"price", "unit_price", "line_total", "total"}

CoerceRow(r) ==
  [c \in DOMAIN r |->
     IF c \in IntCols THEN IntCoerce(r[c])
     ELSE IF c \in FloatCols THEN FloatCoerce(r[c])
     ELSE TextV(r[c])]

-----------------------------------------------------------------------------
(* The schema: SQL_CREATE and col_map *)

\* the tables in the order ingest() loads them
Tables == <<"customers", "products", "orders", "order_items", "reviews">>

TableSet == {Tables[i] : i \in DOMAIN Tables}

col_map ==
  [customers   |-> <<"customer_id", "name", "email">>,
   products    |-> <<"product_id", "price">>,
   orders      |-> <<"order_id", "customer_id", "total", "status">>,
   order_items |-> <<"order_item_id", "order_id", "product_id", "quantity",
                     "unit_price", "line_total">>,
   reviews     |-> <<"review_id", "product_id", "customer_id", "rating">>]

\* the INTEGER PRIMARY KEY column of a table
PkCol(t) == col_map[t][1]

\* the UNIQUE columns of a table
UniqueCols(t) == IF t = "customers" THEN {"email"} ELSE {}

\* FOREIGN KEY(col) REFERENCES parent: <<col, parent>>
ForeignKeys(t) ==
  IF t = "orders" THEN {<<"customer_id", "customers">>}
  ELSE IF t = "order_items" THEN {<<"order_id", "orders">>, <<"product_id", "products">>}
  ELSE IF t = "reviews" THEN {<<"product_id", "products">>, <<"customer_id", "customers">>}
  ELSE {}

\* the declared type of a column
ColType(c) ==
  IF c \in {"customer_id", "product_id", "order_id", "order_item_id", "review_id",
            "rating", "quantity"} THEN "INTEGER"
  ELSE IF c \in {"price", "unit_price", "line_total", "total"} THEN "REAL"
  ELSE "TEXT"

\* the cell SQLite stores for a bound value in a column of that type: in an
\* INTEGER or REAL column a text that reads as a number becomes the number,
\* in an INTEGER column a number without fraction becomes an integer, in a
\* REAL column an integer becomes a real; any other text stays a text
Affinity(type, v) ==
  LET Cell(f) ==
        LET m == IF v.k = "text" THEN f.mills
                 ELSE IF v.k = "int" THEN v.n * 1000
                 ELSE v.n
        IN  IF type = "TEXT" \/ (v.k = "text" /\ ~f.ok) THEN v
            ELSE IF type = "REAL" THEN RealV(m)
            ELSE IF m % 1000 = 0 THEN IntV(Truncate(m))
            ELSE RealV(m)
  IN  Cell(ParseFloat(v.s))

\* the row as the table stores it
StoredRow(row) == [c \in DOMAIN row |-> Affinity(ColType(c), row[c])]

\* a table is a function from the primary keys of its rows to the rows
EmptyTable == [p \in {} |-> p]

\* create_schema on a new database file: five empty tables
EmptyStore == [t \in TableSet |-> EmptyTable]

-----------------------------------------------------------------------------
(* INSERT OR REPLACE of one row, with PRAGMA foreign_keys = ON *)

\* faulty variant: foreign keys are not enforced
ChildKeysHold_NotEnforced(db, t, row) == TRUE

\* the foreign keys of the written row have their parent rows
ChildKeysHold(db, t, row) ==
  \A fk \in ForeignKeys(t) :
     /\ row[fk[1]].k = "int"
     /\ row[fk[1]].n \in DOMAIN db[fk[2]]

\* no row of a child table is left referring to a row REPLACE deleted
ParentKeysHold(db, t, deleted) ==
  \A p \in deleted \ DOMAIN db[t] :
     \A u \in TableSet : \A fk \in ForeignKeys(u) :
        fk[2] = t => \A q \in DOMAIN db[u] : db[u][q][fk[1]] # IntV(p)

\* the rows REPLACE deletes: the one with the primary key, and the ones
\* holding the new row's value in a UNIQUE column
Conflicting(tab, t, row) ==
  {p \in DOMAIN tab :
     \/ p = row[PkCol(t)].n
     \/ \E c \in UniqueCols(t) : tab[p][c] = row[c]}

\* [ok, db]: ok is FALSE when the statement raises IntegrityError (a primary
\* key that is no integer: datatype mismatch; a foreign key left dangling
\* at the end of the statement), and the statement then changes nothing
InsertOrReplace(db, t, bound) ==
  LET Write(row) ==
        LET pk == row[PkCol(t)]
            Replace(deleted) ==
              LET Check(db2) ==
                    IF ChildKeysHold(db2, t, row) /\ ParentKeysHold(db2, t, deleted)
                    THEN [ok |-> TRUE, db |-> db2]
                    ELSE [ok |-> FALSE, db |-> db]
              IN  Check([db EXCEPT ![t] =
                           [p \in (DOMAIN db[t] \ deleted) \cup {pk.n} |->
                              IF p = pk.n THEN row ELSE db[t][p]]])
        IN  IF pk.k # "int" THEN [ok |-> FALSE, db |-> db]
            ELSE Replace(Conflicting(db[t], t, row))
  IN  Write(StoredRow(bound))

\* cur.executemany: the rows one statement after the other, up to the first
\* that raises
RECURSIVE executemany(_, _, _)
executemany(db, t, rows) ==
  IF rows = <<>> THEN [ok |-> TRUE, db |-> db]
  ELSE LET Then(r) == IF r.ok THEN executemany(r.db, t, Tail(rows))
                       ELSE [ok |-> FALSE, db |-> r.db]
       IN  Then(InsertOrReplace(db, t, Head(rows)))

\* faulty variant: the rows written before the one that raised stay
Transaction_NoRollback(before, r) == r.db

\* "with conn:" around insert_rows: commit, or roll back when a row raised
Transaction(before, r) == IF r.ok THEN r.db ELSE before

\* faulty variant: a file that is absent raises instead of being skipped
LoadTable_MissingRaises(db, t, file) ==
  IF ~file.present THEN [db |-> db, outcome |-> "failed"]
  ELSE IF file.rows = <<>> THEN [db |-> db, outcome |-> "empty"]
  ELSE LET Commit(r) == [db |-> Transaction(db, r),
                          outcome |-> IF r.ok THEN "loaded" ELSE "failed"]
       IN  Commit(executemany(db, t, [i \in DOMAIN file.rows |-> CoerceRow(file.rows[i])]))

\* one pass of the loop over the tables: [db, outcome]
LoadTable(db, t, file) ==
  IF ~file.present THEN [db |-> db, outcome |-> "missing"]
  ELSE IF file.rows = <<>> THEN [db |-> db, outcome |-> "empty"]
  ELSE LET Commit(r) == [db |-> Transaction(db, r),
                          outcome |-> IF r.ok THEN "loaded" ELSE "failed"]
       IN  Commit(executemany(db, t, [i \in DOMAIN file.rows |-> CoerceRow(file.rows[i])]))

\* the loop over the tables from the i-th on; an exception leaves the loop
RECURSIVE LoadFrom(_, _, _, _)
LoadFrom(db, files, i, outcome) ==
  IF i > Len(Tables) THEN [db |-> db, outcome |-> outcome]
  ELSE LET t == Tables[i]
           Then(r) ==
             LET o == [outcome EXCEPT ![t] = r.outcome]
             IN  IF r.outcome = "failed" THEN [db |-> r.db, outcome |-> o]
                 ELSE LoadFrom(r.db, files, i + 1, o)
       IN  Then(LoadTable(db, t, files[t]))

NotReached == [t \in TableSet |-> "notreached"]

-----------------------------------------------------------------------------
(* The aggregates of SQLite *)

\* the number SQLite reads in a cell of any type, in thousandths: a TEXT
\* counts for its longest numeric prefix, 0 when it has none
NumericPrefix(t) ==
  LET good == {j \in 1..Len(t) : ParseFloat(SubSeq(t, 1, j)).ok}
  IN  IF good = {} THEN 0
      ELSE ParseFloat(SubSeq(t, 1, CHOOSE j \in good : \A h \in good : h <= j)).mills

NumVal(v) ==
  IF v.k = "real" THEN v.n
  ELSE IF v.k = "int" THEN v.n * 1000
  ELSE NumericPrefix(v.s)

\* SUM(col) over the rows of tab with keys in S
RECURSIVE SumCol(_, _, _)
SumCol(tab, S, col) ==
  IF S = {} THEN 0
  ELSE LET p == CHOOSE q \in S : TRUE
       IN  NumVal(tab[p][col]) + SumCol(tab, S \ {p}, col)

\* ROUND(x, 2): to the nearest hundredth, halves away from zero
Round2(m) ==
  IF m >= 0 THEN ((m + 5) \div 10) * 10 ELSE 0 - (((0 - m) + 5) \div 10) * 10

\* ROUND(x / n, 2) for n > 0
RoundDiv2(m, n) ==
  IF m >= 0 THEN ((2 * m + 10 * n) \div (20 * n)) * 10
  ELSE 0 - ((2 * (0 - m) + 10 * n) \div (20 * n)) * 10

\* the order_items rows of an order
ItemsOf(db, o) ==
  {q \in DOMAIN db["order_items"] : db["order_items"][q]["order_id"] = IntV(o)}

\* faulty variant: the sum is not rounded
UpdateTotals_NotRounded(db) ==
  [db EXCEPT !["orders"] =
     [o \in DOMAIN db["orders"] |->
        IF ItemsOf(db, o) # {}
        THEN [db["orders"][o] EXCEPT
                !["total"] = RealV(SumCol(db["order_items"], ItemsOf(db, o), "line_total"))]
        ELSE db["orders"][o]]]

\* faulty variant: no WHERE clause, an order without items gets the NULL
\* that SUM gives no rows
UpdateTotals_EveryOrder(db) ==
  [db EXCEPT !["orders"] =
     [o \in DOMAIN db["orders"] |->
        [db["orders"][o] EXCEPT
           !["total"] = IF ItemsOf(db, o) # {}
                        THEN RealV(Round2(SumCol(db["order_items"], ItemsOf(db, o), "line_total")))
                        ELSE [k |-> "null", n |-> 0, s |-> <<>>]]]]

\* UPDATE orders SET total = (SELECT ROUND(SUM(line_total), 2) ...)
\* WHERE order_id IN (SELECT DISTINCT order_id FROM order_items)
UpdateTotals(db) ==
  [db EXCEPT !["orders"] =
     [o \in DOMAIN db["orders"] |->
        IF ItemsOf(db, o) # {}
        THEN [db["orders"][o] EXCEPT
                !["total"] = RealV(Round2(SumCol(db["order_items"], ItemsOf(db, o), "line_total")))]
        ELSE db["orders"][o]]]

Completed == <<"c", "o", "m", "p", "l", "e", "t", "e", "d">>

\* faulty variant: the join takes the orders of every status
JoinedOrders_AnyStatus(db, c) ==
  {o \in DOMAIN db["orders"] : db["orders"][o]["customer_id"] = IntV(c)}

\* the orders the join gives customer c:
\* ON o.customer_id = c.customer_id AND o.status = 'completed'
JoinedOrders(db, c) ==
  {o \in DOMAIN db["orders"] :
     /\ db["orders"][o]["customer_id"] = IntV(c)
     /\ db["orders"][o]["status"] = TextV(Completed)}

\* customers c LEFT JOIN orders o: a customer without a joined order gives
\* one row whose order columns are NULL (matched = FALSE)
LeftJoin(db) ==
  UNION {IF JoinedOrders(db, c) = {}
         THEN {[c |-> c, o |-> 0, matched |-> FALSE]}
         ELSE {[c |-> c, o |-> o, matched |-> TRUE] : o \in JoinedOrders(db, c)}
           : c \in DOMAIN db["customers"]}

\* the aggregates of one group of GROUP BY c.customer_id, c.name: joined
\* holds the orders of the group's rows, none for the row of NULLs
LtvRow(db, g, joined) ==
  [customer_id     |-> g[1],
   name            |-> g[2],
   lifetime_spend  |-> SumCol(db["orders"], joined, "total"),
   orders_count    |-> Cardinality(joined),
   avg_order_value |-> IF Cardinality(joined) = 0 THEN 0
                       ELSE RoundDiv2(SumCol(db["orders"], joined, "total"),
                                      Cardinality(joined))]

\* the SELECT of the lifetime-value report, a row per group
LtvQuery(db) ==
  LET join   == LeftJoin(db)
      groups == {<<j.c, db["customers"][j.c]["name"]>> : j \in join}
  IN  {LtvRow(db, g, {j.o : j \in {h \in join :
                                     /\ h.c = g[1]
                                     /\ db["customers"][h.c]["name"] = g[2]
                                     /\ h.matched}})
         : g \in groups}

-----------------------------------------------------------------------------
(* The data directories ingest() is run on *)

File(rows) == [present |-> TRUE, rows |-> rows]

Absent == [present |-> FALSE, rows |-> <<>>]

Customer(id, name, email) ==
  [customer_id |-> id, name |-> name, email |-> email]

Product(id, price) == [product_id |-> id, price |-> price]

Order(id, customer, total, status) ==
  [order_id |-> id, customer_id |-> customer, total |-> total, status |-> status]

Item(id, order, product, line_total) ==
  [order_item_id |-> id, order_id |-> order, product_id |-> product,
   quantity |-> <<"1">>, unit_price |-> line_total, line_total |-> line_total]

Review(id, product, customer, rating) ==
  [review_id |-> id, product_id |-> product, customer_id |-> customer, rating |-> rating]

Cancelled == <<"c", "a", "n", "c", "e", "l", "l", "e", "d">>

\* a data set whose foreign keys are consistent: customer 1 has no order,
\* customer 2 has the completed orders 10 (one item) and 12 (no item) and
\* the cancelled order 11
Base ==
  [customers   |-> File(<<Customer(<<"1">>, <<"x">>, <<"a">>),
                          Customer(<<"2">>, <<"y">>, <<"b">>)>>),
   products    |-> File(<<Product(<<"1">>, <<"2", ".", "5", "0", "5">>)>>),
   orders      |-> File(<<Order(<<"1", "0">>, <<"2">>, <<"9", ".", "9", "9">>, Completed),
                          Order(<<"1", "1">>, <<"2">>, <<"4">>, Cancelled),
                          Order(<<"1", "2">>, <<"2">>, <<"2", ".", "5", "0">>, Completed)>>),
   order_items |-> File(<<Item(<<"1", "0", "0">>, <<"1", "0">>, <<"1">>,
                               <<"2", ".", "5", "0", "5">>)>>),
   reviews     |-> File(<<Review(<<"7">>, <<"1">>, <<"2">>, <<"5">>)>>)]

\* what a file of the data directory may be instead of the Base file
Variants ==
  [customers   |-> {Absent,
                    \* two customers with one email
                    File(<<Customer(<<"1">>, <<"x">>, <<"a">>),
                           Customer(<<"2">>, <<"y">>, <<"a">>)>>),
                    \* customer 1 gone, the id written as a float
                    File(<<Customer(<<"2", ".", "0">>, <<"z">>, <<"b">>)>>),
                    \* an id that is no number
                    File(<<Customer(<<"2">>, <<"y">>, <<"b">>),
                           Customer(<<"a", "b", "c">>, <<"x">>, <<"a">>)>>)},
   products    |-> {Absent,
                    File(<<Product(<<"1">>, <<"a", "b", "c">>)>>),
                    File(<<Product(<<"1">>, <<"2", ".", "5", "0", "5">>),
                           Product(<<>>, <<"3">>)>>)},
   orders      |-> {Absent,
                    \* the second row names a customer that does not exist
                    File(<<Order(<<"1", "0">>, <<"2">>, <<"9", ".", "9", "9">>, Completed),
                           Order(<<"1", "3">>, <<"9">>, <<"4">>, Completed)>>),
                    \* totals that are no numbers
                    File(<<Order(<<"1", "0">>, <<"2">>, <<"a", "b", "c">>, Completed),
                           Order(<<"1", "2">>, <<"1">>, <<"1", "a">>, Completed)>>)},
   order_items |-> {Absent,
                    \* the second row names an order that does not exist
                    File(<<Item(<<"1", "0", "0">>, <<"1", "0">>, <<"1">>,
                                <<"2", ".", "5", "0", "5">>),
                           Item(<<"1", "0", "1">>, <<"9", "9">>, <<"1">>, <<"1">>)>>),
                    \* a line total that is no number
                    File(<<Item(<<"1", "0", "0">>, <<"1", "0">>, <<"1">>,
                                <<"2", ".", "5", "0", "5">>),
                           Item(<<"1", "0", "1">>, <<"1", "0">>, <<"1">>, <<"a", "b", "c">>)>>),
                    \* other items: none for order 10, one for order 12
                    File(<<Item(<<"1", "0", "1">>, <<"1", "2">>, <<"1">>,
                                <<"1", ".", "0", "0", "4">>)>>)},
   reviews     |-> {Absent,
                    File(<<>>),
                    File(<<Review(<<"7">>, <<"1">>, <<"1">>, <<"a", "b", "c">>)>>)}]

\* the data directories: the Base files, or the Base files with one of them
\* replaced by a variant
DataDirs ==
  {Base} \cup UNION {{[Base EXCEPT ![t] = v] : v \in Variants[t]} : t \in TableSet}

-----------------------------------------------------------------------------
(* ingest() *)

MaxRuns == 2

NoFiles == [t \in TableSet |-> Absent]

Init ==
  /\ store = EmptyStore
  /\ db_exists = FALSE
  /\ ltv_report = {}
  /\ last = [files |-> NoFiles, replace |-> FALSE, write_ltv |-> FALSE,
             outcome |-> NotReached, completed |-> FALSE]
  /\ runs = 0

\* faulty variant: the old database file is not removed
OpenDb_NotRemoved(db, exists, replace) == IF exists THEN db ELSE EmptyStore

\* the database the connection opens: os.remove when replace is asked for
\* and the file exists, create_schema on a file that is new
OpenDb(db, exists, replace) ==
  IF replace /\ exists THEN EmptyStore
  ELSE IF exists THEN db
  ELSE EmptyStore

\* the body of ingest() after the connection is opened: the loop over the
\* tables, then the UPDATE of the totals, then the report when asked for;
\* an exception of the loop skips both (the finally clause closes the
\* connection)
RunIngest(db0, files, write_ltv, report) ==
  LET Finish(loaded) ==
        LET raised == \E t \in TableSet : loaded.outcome[t] = "failed"
            Result(db1) ==
              [db        |-> db1,
               outcome   |-> loaded.outcome,
               completed |-> ~raised,
               report    |-> IF ~raised /\ write_ltv THEN LtvQuery(db1) ELSE report]
        IN  Result(IF raised THEN loaded.db ELSE UpdateTotals(loaded.db))
  IN  Finish(LoadFrom(db0, files, 1, NotReached))

Ingest(files, replace, write_ltv) ==
  /\ runs < MaxRuns
  /\ \E r \in {RunIngest(OpenDb(store, db_exists, replace), files, write_ltv, ltv_report)} :
        /\ store' = r.db
        /\ ltv_report' = r.report
        /\ last' = [files |-> files, replace |-> replace, write_ltv |-> write_ltv,
                    outcome |-> r.outcome, completed |-> r.completed]
  /\ runs' = runs + 1
  /\ db_exists' = TRUE

Next == \E files \in DataDirs, replace \in BOOLEAN, write_ltv \in BOOLEAN :
           Ingest(files, replace, write_ltv)

Spec == Init /\ [][Next]_vars

-----------------------------------------------------------------------------
(* What the properties below say of a run *)

Ran == runs > 0

\* the step is a run of ingest()
IsRun == runs' = runs + 1

\* the row of a file as its table stores it
Stored(row) == StoredRow(CoerceRow(row))

\* the i-th row of the file of table t is not replaced by a later row of the
\* file: none has its primary key or its value in a UNIQUE column
Survives(file, t, i) ==
  \A j \in DOMAIN file.rows :
     j > i => /\ Stored(file.rows[j])[PkCol(t)] # Stored(file.rows[i])[PkCol(t)]
              /\ \A c \in UniqueCols(t) :
                    Stored(file.rows[j])[c] # Stored(file.rows[i])[c]

\* the two rows agree, but perhaps on the named column
SameBut(r1, r2, col) ==
  /\ DOMAIN r1 = DOMAIN r2
  /\ \A c \in DOMAIN r1 \ {col} : r1[c] = r2[c]

\* the table holds the rows of the file: each one that no later row of the
\* file replaces, under its primary key (the total of an order apart, which
\* the UPDATE rewrites)
HoldsFile(tab, file, t) ==
  \A i \in DOMAIN file.rows :
     Survives(file, t, i) =>
        LET row == Stored(file.rows[i])
        IN  /\ row[PkCol(t)].k = "int"
            /\ row[PkCol(t)].n \in DOMAIN tab
            /\ SameBut(tab[row[PkCol(t)].n], row, "total")

\* the primary keys of the rows of a file
CsvKeys(file, t) ==
  {Stored(file.rows[i])[PkCol(t)].n :
     i \in {j \in DOMAIN file.rows : Stored(file.rows[j])[PkCol(t)].k = "int"}}

Before(t, u) ==
  \E i, j \in DOMAIN Tables : Tables[i] = t /\ Tables[j] = u /\ i < j

\* r is x / n to the nearest hundredth, a half going away from zero
\* (x and r in thousandths, n > 0)
IsRounded(x, n, r) ==
  /\ r % 10 = 0
  /\ IF x >= 0 THEN n * r - x <= 5 * n /\ x - n * r < 5 * n
     ELSE x - n * r <= 5 * n /\ n * r - x < 5 * n

\* a field that does not read as a number
Unparseable(text) == text # <<>> /\ ~ParseFloat(text).ok

NumericCols ==
  {"customer_id", "product_id", "order_id", "order_item_id", "review_id",
   "rating", "quantity", "price", "unit_price", "line_total", "total"}

-----------------------------------------------------------------------------
(* C1: a second run of ingest() on the same CSV files into the same store,  *)
(* without replace, after a first run that completed, completes too and     *)
(* leaves every table with exactly the rows the first run left.             *)
C1_SecondRunChangesNothing ==
  [][(Ran /\ last.completed /\ IsRun /\ last'.files = last.files /\ ~last'.replace)
       => (last'.completed /\ store' = store)]_vars

(* C2: after a run that completes, every order of the store that has an     *)
(* order_items row has as total the sum of the line_total of its            *)
(* order_items rows rounded to 2 decimals, whatever total orders.csv gave.  *)
C2_TotalIsItemSum ==
  (Ran /\ last.completed) =>
     \A o \in DOMAIN store["orders"] :
        LET items == {q \in DOMAIN store["order_items"] :
                        store["order_items"][q]["order_id"] = store["orders"][o]["order_id"]}
            sum   == SumCol(store["order_items"], items, "line_total")
            total == store["orders"][o]["total"]
        IN  items # {} => total.k = "real" /\ IsRounded(sum, 1, total.n)

\* a completed run loaded orders.csv, and left an order with items whose
\* sum needed rounding and whose total in orders.csv was another
C2_Witness ==
  /\ Ran /\ last.completed /\ last.outcome["orders"] = "loaded"
  /\ \E i \in DOMAIN last.files["orders"].rows :
        LET row == Stored(last.files["orders"].rows[i])
            o   == row["order_id"].n
        IN  /\ o \in DOMAIN store["orders"]
            /\ ItemsOf(store, o) # {}
            /\ SumCol(store["order_items"], ItemsOf(store, o), "line_total") % 10 # 0
            /\ row["total"] # store["orders"][o]["total"]

(* C3 as claimed: after a run that completes, whatever the store held      *)
(* before, an order of orders.csv that no row of order_items.csv names has  *)
(* the total its orders.csv row carried.                                    *)
C3_KeepsCsvTotal ==
  (Ran /\ last.completed) =>
     \A i \in DOMAIN last.files["orders"].rows :
        LET file == last.files["orders"]
            row  == Stored(file.rows[i])
            named == {Stored(last.files["order_items"].rows[j])["order_id"] :
                        j \in DOMAIN last.files["order_items"].rows}
        IN  (Survives(file, "orders", i) /\ row["order_id"] \notin named) =>
               /\ row["order_id"].n \in DOMAIN store["orders"]
               /\ store["orders"][row["order_id"].n]["total"] = row["total"]

(* C3 amended: after a run that completes, an order of orders.csv that has  *)
(* no order_items row in the store has the total its orders.csv row         *)
(* carried; rows that earlier runs left in order_items count.               *)
C3_KeepsCsvTotalWithoutStoredItems ==
  (Ran /\ last.completed) =>
     \A i \in DOMAIN last.files["orders"].rows :
        LET file == last.files["orders"]
            row  == Stored(file.rows[i])
            items == {q \in DOMAIN store["order_items"] :
                        store["order_items"][q]["order_id"] = row["order_id"]}
        IN  (Survives(file, "orders", i) /\ items = {}) =>
               /\ row["order_id"].n \in DOMAIN store["orders"]
               /\ store["orders"][row["order_id"].n]["total"] = row["total"]

\* a completed run loaded an order without items beside an order with items
C3_Witness ==
  /\ Ran /\ last.completed /\ last.outcome["orders"] = "loaded"
  /\ \E i, j \in DOMAIN last.files["orders"].rows :
        /\ ItemsOf(store, Stored(last.files["orders"].rows[i])["order_id"].n) = {}
        /\ ItemsOf(store, Stored(last.files["orders"].rows[j])["order_id"].n) # {}

C5_TextFieldKept ==
  Ran =>
     \A t \in TableSet : \A i \in DOMAIN last.files[t].rows :
        LET file == last.files[t]
            row  == file.rows[i]
        IN  \A c \in DOMAIN row \cap NumericCols :
               (Unparseable(row[c]) /\ last.outcome[t] # "notreached") =>
                  /\ last.outcome[t] = "loaded"
                  /\ Survives(file, t, i) =>
                        \E p \in DOMAIN store[t] :
                           /\ SameBut(store[t][p], Stored(row), "total")
                           /\ \/ store[t][p][c] = TextV(row[c])
                              \/ c = "total" /\ last.completed /\ ItemsOf(store, p) # {}

(* C6: the report a run writes has exactly one row per customer of the      *)
(* store; its lifetime_spend is the sum of the totals of the customer's     *)
(* completed orders, its orders_count their number, its avg_order_value     *)
(* their quotient rounded to 2 decimals, and 0, 0 and 0 for a customer      *)
(* without a completed order; orders of another status count for nothing.   *)
C6_LtvReport ==
  (Ran /\ last.completed /\ last.write_ltv) =>
     /\ \A c \in DOMAIN store["customers"] :
           Cardinality({r \in ltv_report : r.customer_id = c}) = 1
     /\ \A r \in ltv_report :
           /\ r.customer_id \in DOMAIN store["customers"]
           /\ LET done == {o \in DOMAIN store["orders"] :
                             /\ store["orders"][o]["customer_id"].n = r.customer_id
                             /\ store["orders"][o]["status"].s = Completed}
                  spend == SumCol(store["orders"], done, "total")
              IN  /\ r.lifetime_spend = spend
                  /\ r.orders_count = Cardinality(done)
                  /\ IF done = {} THEN r.avg_order_value = 0 /\ r.lifetime_spend = 0
                     ELSE IsRounded(spend, Cardinality(done), r.avg_order_value)

\* a report with a customer without orders and a customer with two
\* completed orders, whose average needed rounding, and a cancelled one
C6_Witness ==
  /\ Ran /\ last.completed /\ last.write_ltv
  /\ \E r \in ltv_report : r.orders_count = 0
  /\ \E r \in ltv_report :
        /\ r.orders_count = 2
        /\ r.lifetime_spend % 20 # 0
        /\ \E o \in DOMAIN store["orders"] :
              /\ store["orders"][o]["customer_id"].n = r.customer_id
              /\ store["orders"][o]["status"].s = Cancelled

(* C7: after a run with replace on a store that existed, no row remains     *)
(* whose primary key is not in the current CSV file of its table.           *)
C7_ReplaceLeavesOnlyCsvRows ==
  (Ran /\ last.replace) =>
     \A t \in TableSet : DOMAIN store[t] \subseteq CsvKeys(last.files[t], t)

\* a second run, with replace, on files that lack customer 1 and order 11
\* or the reviews
C7_Witness ==
  /\ runs >= 2 /\ last.replace /\ last.completed
  /\ DOMAIN store["customers"] # {}
  /\ \E t \in TableSet : CsvKeys(Base[t], t) \ DOMAIN store[t] # {}

(* C8: a run without replace deletes no row: the primary keys a table held  *)
(* before the run it holds after it.                                        *)
C8_NoRowDeleted ==
  [][(IsRun /\ ~last'.replace) =>
       \A t \in TableSet : DOMAIN store[t] \subseteq DOMAIN store'[t]]_vars

(* C9: whatever runs there were, every order_items row of the store names   *)
(* an order row and a product row that are in the store.                    *)
C9_ItemsHaveParents ==
  \A q \in DOMAIN store["order_items"] :
     /\ \E o \in DOMAIN store["orders"] :
           store["orders"][o]["order_id"] = store["order_items"][q]["order_id"]
     /\ \E p \in DOMAIN store["products"] :
           store["products"][p]["product_id"] = store["order_items"][q]["product_id"]

\* a run aborted on an order_items row that names no order, on a store that
\* holds order items
C9_Witness ==
  /\ Ran /\ last.outcome["order_items"] = "failed"
  /\ DOMAIN store["order_items"] # {}
  /\ \E i \in DOMAIN last.files["order_items"].rows :
        Stored(last.files["order_items"].rows[i])["order_id"].n \notin DOMAIN store["orders"]

(* C10: the batch of a table is atomic: when a row of it fails the table is *)
(* as it was before the batch and the batches of the tables loaded before   *)
(* it stay committed; when no row fails all its rows are in the table.      *)
C10_BatchAtomic ==
  [][IsRun =>
       LET opened == OpenDb(store, db_exists, last'.replace)
       IN  \A t \in TableSet :
              /\ last'.outcome[t] = "failed" =>
                    /\ store'[t] = opened[t]
                    /\ \A u \in TableSet :
                          (Before(u, t) /\ last'.outcome[u] = "loaded") =>
                             /\ HoldsFile(store'[u], last'.files[u], u)
                             /\ \A p \in DOMAIN store'[u] :
                                   p \in DOMAIN opened[u] \cup CsvKeys(last'.files[u], u)
              /\ last'.outcome[t] = "loaded" => HoldsFile(store'[t], last'.files[t], t)]_vars

\* the second row of orders.csv failed: the first, which the store would
\* have taken, is not in the table, and the customers loaded before are
C10_Witness ==
  /\ Ran /\ last.outcome["orders"] = "failed" /\ last.outcome["customers"] = "loaded"
  /\ Len(last.files["orders"].rows) >= 2
  /\ LET first == Stored(last.files["orders"].rows[1])
     IN  /\ first["customer_id"].n \in DOMAIN store["customers"]
         /\ first["order_id"].n \notin DOMAIN store["orders"]

=============================================================================
